---- MODULE Spec2Model ----
(***************************************************************************)
(* A model of main.py of OllamaYTSumm: one Streamlit script run of main()  *)
(* (model listing, sidebar, URL input, the "Generate Summary" pipeline)    *)
(* and the helper functions it calls.  Python strings are sequences of     *)
(* one-character strings (URLs, identifiers) or of text tokens (prompts,   *)
(* transcripts, messages); what an external service answers is chosen      *)
(* nondeterministically at the call.                                       *)
(***************************************************************************)
EXTENDS Naturals, Sequences, FiniteSets, TLC

VARIABLES pc, trigger, url, selected_model, selected_tone, custom_prompt,
          video_id, video_title, titleResponse, transcript, chatResponse,
          summary, display, calls, chatRequests, escaped,
          listResponse, transcriptResponse

vars == <<pc, trigger, url, selected_model, selected_tone, custom_prompt,
          video_id, video_title, titleResponse, transcript, chatResponse,
          summary, display, calls, chatRequests, escaped,
          listResponse, transcriptResponse>>

----------------------------------------------------------------------------
(* Bounds of the model *)

\* URLs handed to getVideoID alone are made of at most MaxSegs segments
MaxSegs == 4
\* URLs typed into the form are made of at most MaxPipeSegs segments
MaxPipeSegs == 2

----------------------------------------------------------------------------
(* Python strings and the str operations the code uses *)

ShortMarker == <<"y", "o", "u", "t", "u", ".", "b", "e", "/">>
VMarker == <<"v", "=">>
Amp == <<"&">>
QMark == <<"?">>

\* the pieces the enumerated URLs are concatenated from
Segments == {ShortMarker, VMarker, Amp, QMark, <<"a">>, <<"b">>}

RECURSIVE UrlsUpTo(_)
UrlsUpTo(n) ==
    IF n = 0 THEN {<<>>}
    ELSE LET S == UrlsUpTo(n - 1) IN S \cup {u \o s : u \in S, s \in Segments}

\* sep occurs in s at position i
StartsAt(s, sep, i) ==
    /\ i + Len(sep) - 1 <= Len(s)
    /\ SubSeq(s, i, i + Len(sep) - 1) = sep

\* `sep in s`
Contains(s, sep) == \E i \in 1..Len(s) : StartsAt(s, sep, i)

\* s.find(sep) + 1: the position of the leftmost occurrence, 0 when there is none
Find(s, sep) ==
    IF Contains(s, sep)
    THEN CHOOSE i \in 1..Len(s) :
            StartsAt(s, sep, i) /\ \A j \in 1..(i - 1) : ~StartsAt(s, sep, j)
    ELSE 0

\* s.split(sep): the pieces between the non-overlapping occurrences, left to right
RECURSIVE Split(_, _)
Split(s, sep) ==
    LET i == Find(s, sep) IN
    IF i = 0 THEN <<s>>
    ELSE <<SubSeq(s, 1, i - 1)>> \o Split(SubSeq(s, i + Len(sep), Len(s)), sep)

\* the truth value of a str (or of a list): empty is falsy
Truthy(s) == s # <<>>

----------------------------------------------------------------------------
(* Exceptions *)

Exc(type, msg) == [type |-> type, msg |-> msg]
NoExc == Exc("", <<>>)

\* the exception classes raised in a run; each derives from Exception
ExceptionClasses == {"Exception", "ValueError", "KeyError", "TypeError",
                     "UnboundLocalError", "ConnectionError", "JSONDecodeError",
                     "TranscriptsDisabled", "ResponseError"}

\* a handler that catches nothing but ValueError
IsException_ValueErrorOnly(e) == e.type = "ValueError"

\* `except Exception` matches e
IsException(e) == e.type \in ExceptionClasses

----------------------------------------------------------------------------
(* getVideoID *)

Returned(v) == [kind |-> "ok", value |-> v, exc |-> NoExc]
ReturnedNone == [kind |-> "none", value |-> <<>>, exc |-> NoExc]
Raised(e) == [kind |-> "raise", value |-> <<>>, exc |-> e]
Unset == [kind |-> "unset", value |-> <<>>, exc |-> NoExc]

\* the else branch hands the URL back instead of raising
getVideoID_NoRaise(u) ==
    IF ~Truthy(u) THEN ReturnedNone
    ELSE IF Contains(u, ShortMarker)
         THEN Returned(Split(Split(u, ShortMarker)[2], QMark)[1])
    ELSE IF Contains(u, VMarker)
         THEN Returned(Split(Split(u, VMarker)[2], Amp)[1])
    ELSE Returned(u)

\* the v= branch takes everything after the first v=, not cutting at a later v=
getVideoID_Rest(u) ==
    IF ~Truthy(u) THEN ReturnedNone
    ELSE IF Contains(u, ShortMarker)
         THEN Returned(Split(Split(u, ShortMarker)[2], QMark)[1])
    ELSE IF Contains(u, VMarker)
         THEN LET i == Find(u, VMarker) IN
              Returned(Split(SubSeq(u, i + 2, Len(u)), Amp)[1])
    ELSE Raised(Exc("ValueError", <<"Invalid YouTube URL format">>))

getVideoID(u) ==
    IF ~Truthy(u) THEN ReturnedNone
    ELSE IF Contains(u, ShortMarker)
         THEN Returned(Split(Split(u, ShortMarker)[2], QMark)[1])
    ELSE IF Contains(u, VMarker)
         THEN Returned(Split(Split(u, VMarker)[2], Amp)[1])
    ELSE Raised(Exc("ValueError", <<"Invalid YouTube URL format">>))

----------------------------------------------------------------------------
(* What the page shows: the st.error / st.warning / st.text_area /           *)
(* st.download_button elements of one run, in the order they are emitted.    *)
(* Static headings, the spinner and the input widgets are left out.          *)

Elem(w, l, t, f) == [widget |-> w, label |-> l, text |-> t, file_name |-> f]
Error(t) == Elem("error", "", t, <<>>)
Warning(t) == Elem("warning", "", t, <<>>)
TextArea(l, t) == Elem("text_area", l, t, <<>>)
Download(l, t, f) == Elem("download_button", l, t, f)

Shows(e) == \E i \in 1..Len(display) : display[i] = e
ShowsWidget(w, l) ==
    \E i \in 1..Len(display) : display[i].widget = w /\ display[i].label = l
ErrorsShown == {i \in 1..Len(display) : display[i].widget = "error"}

----------------------------------------------------------------------------
(* get_transcription *)

\* what YouTubeTranscriptApi.get_transcript does: raises, or returns the
\* caption entries (their 'text' fields, in order)
Fetched(raises, exc, texts) == [raises |-> raises, exc |-> exc, texts |-> texts]
NoTranscript == Fetched(FALSE, NoExc, <<>>)
TranscriptOutcomes ==
    { Fetched(TRUE, Exc("TranscriptsDisabled", <<"Subtitles are disabled for this video">>), <<>>),
      Fetched(FALSE, NoExc, <<>>),
      Fetched(FALSE, NoExc, <<"Hello ", "world">>) }

\* full_transcript += entry['text'] + "\n", entry by entry
RECURSIVE Flatten(_)
Flatten(texts) ==
    IF texts = <<>> THEN <<>>
    ELSE <<Head(texts), "\n">> \o Flatten(Tail(texts))

\* the failure is handed back as the transcript text instead of being raised
get_transcription_Swallow(vid, out) ==
    IF out.raises
    THEN Returned(<<"Error getting transcript: ">> \o out.exc.msg)
    ELSE Returned(Flatten(out.texts))

get_transcription(vid, out) ==
    IF out.raises
    THEN IF IsException(out.exc)
         THEN Raised(Exc("Exception", <<"Error getting transcript: ">> \o out.exc.msg))
         ELSE Raised(out.exc)
    ELSE Returned(Flatten(out.texts))

----------------------------------------------------------------------------
(* get_video_title *)

Json(valid, keys, title) == [valid |-> valid, keys |-> keys, title |-> title]
Response(raises, exc, status, json) ==
    [raises |-> raises, exc |-> exc, status_code |-> status, json |-> json]
NoResponse == Response(FALSE, NoExc, 0, Json(FALSE, {}, <<>>))

\* what requests.get does for the oEmbed URL
TitleResponses ==
    { Response(TRUE, Exc("ConnectionError", <<"Connection refused">>), 0, Json(FALSE, {}, <<>>)),
      Response(FALSE, NoExc, 404, Json(FALSE, {}, <<>>)),
      Response(FALSE, NoExc, 404, Json(TRUE, {"title"}, <<"Not Found">>)),
      Response(FALSE, NoExc, 200, Json(FALSE, {}, <<>>)),
      Response(FALSE, NoExc, 200, Json(TRUE, {"author_name"}, <<>>)),
      Response(FALSE, NoExc, 200, Json(TRUE, {"title", "author_name"}, <<"X">>)) }

TitleResult(kind, value, exc, shown) ==
    [kind |-> kind, value |-> value, exc |-> exc, shown |-> shown]

\* what the try block of get_video_title raises, NoExc when it raises nothing
TitleFailure(resp) ==
    IF resp.raises THEN resp.exc
    ELSE IF resp.status_code # 200 THEN NoExc
    ELSE IF ~resp.json.valid
         THEN Exc("JSONDecodeError", <<"Expecting value: line 1 column 1 (char 0)">>)
    ELSE IF "title" \notin resp.json.keys THEN Exc("KeyError", <<"'title'">>)
    ELSE NoExc

\* the status code is not looked at
get_video_title_NoStatusCheck(vid, resp) ==
    IF ~resp.raises /\ resp.json.valid /\ "title" \in resp.json.keys
    THEN TitleResult("ok", resp.json.title, NoExc, <<>>)
    ELSE TitleResult("ok", vid, NoExc, <<>>)

get_video_title(vid, resp) ==
    LET e == TitleFailure(resp) IN
    IF e # NoExc
    THEN IF IsException(e)
         THEN TitleResult("ok", vid, NoExc,
                          <<Warning(<<"Could not get video title: ">> \o e.msg)>>)
         ELSE TitleResult("raise", <<>>, e, <<>>)
    ELSE IF ~resp.raises /\ resp.status_code = 200
         THEN TitleResult("ok", resp.json.title, NoExc, <<>>)
         ELSE TitleResult("ok", vid, NoExc, <<>>)

----------------------------------------------------------------------------
(* getAvailableModels *)

Listing(raises, exc, keys, names) ==
    [raises |-> raises, exc |-> exc, keys |-> keys, names |-> names]
NoListing == Listing(FALSE, NoExc, {}, <<>>)

\* what AI.list() does
ListOutcomes ==
    { Listing(TRUE, Exc("ConnectionError", <<"Connection refused">>), {}, <<>>),
      Listing(FALSE, NoExc, {}, <<>>),
      Listing(FALSE, NoExc, {"models"}, <<"llama3", "mistral">>) }

getAvailableModels(out) == out

----------------------------------------------------------------------------
(* create_default_prompt, tone_options *)

tone_options ==
    ("Professional" :> "Use a professional and formal tone.") @@
    ("Funny" :> "Be humorous and entertaining in your summary.") @@
    ("Brisk" :> "Be concise and to-the-point.") @@
    ("Serious" :> "Maintain a serious and analytical tone.") @@
    ("Gen Z" :> "Use Gen Z slang and casual language, including modern internet expressions.")

create_default_prompt(tone) ==
    << "You are a summarizing assistant responsible for analyzing the content of YouTube videos. ",
       tone, " ",
       "The user will feed you transcriptions but you should always refer to the content in your response as \"the video\". Focus on accurately summarizing the main points and key details of the videos. Do not comment on the style of the video (e.g., whether it is a voiceover or conversational). Do never mention or imply the existence of text, transcription, or any written format. Use phrases like \"The video discusses...\" or \"According to the video...\". Strive to be the best summarizer possible, providing clear, and informative summaries that exclusively reference the video content." >>

----------------------------------------------------------------------------
(* askOllama *)

Message(isDict, keys, content) == [isDict |-> isDict, keys |-> keys, content |-> content]
NoMessage == Message(FALSE, {}, <<>>)
Reply(raises, exc, keys, message) ==
    [raises |-> raises, exc |-> exc, keys |-> keys, message |-> message]
NoReply == Reply(FALSE, NoExc, {}, NoMessage)

\* what AI.chat does: raises, or returns a reply: {} / no 'message' / a
\* 'message' without 'content' / 'message': None / a complete reply
ChatReplies ==
    { Reply(TRUE, Exc("ConnectionError", <<"Connection refused">>), {}, NoMessage),
      Reply(FALSE, NoExc, {}, NoMessage),
      Reply(FALSE, NoExc, {"model"}, NoMessage),
      Reply(FALSE, NoExc, {"model", "message"}, Message(TRUE, {"role"}, <<>>)),
      Reply(FALSE, NoExc, {"model", "message"}, Message(FALSE, {}, <<>>)),
      Reply(FALSE, NoExc, {"model", "message"},
            Message(TRUE, {"role", "content"}, <<"The video discusses greetings.">>)) }

\* the value askOllama returns: None, or the reply
Summary(isNone, keys, message) == [isNone |-> isNone, keys |-> keys, message |-> message]
NoneSummary == Summary(TRUE, {}, NoMessage)

ChatMessage(role, content) == [role |-> role, content |-> content]
ChatRequest(model, messages) == [model |-> model, messages |-> messages]

\* the override is ignored
system_prompt_AlwaysDefault(prompt, tone) == create_default_prompt(tone)

\* custom_prompt if custom_prompt else create_default_prompt(selected_tone)
system_prompt(prompt, tone) ==
    IF Truthy(prompt) THEN prompt ELSE create_default_prompt(tone)

AskResult(kind, value, exc, request, shown) ==
    [kind |-> kind, value |-> value, exc |-> exc, request |-> request, shown |-> shown]

\* what the try block of askOllama raises, NoExc when it returns the reply
AskFailure(reply) ==
    IF reply.raises THEN reply.exc
    ELSE IF reply.keys = {} THEN Exc("Exception", <<"Empty response from AI model">>)
    ELSE NoExc

askOllama(text, usrModel, tone, prompt, reply) ==
    LET request == ChatRequest(usrModel,
                       << ChatMessage("system", system_prompt(prompt, tone)),
                          ChatMessage("user", <<"Transcript: ">> \o text) >>)
        e == AskFailure(reply)
    IN  IF e # NoExc
        THEN IF IsException(e)
             THEN AskResult("ok", NoneSummary, NoExc, request,
                            <<Error(<<"Error generating summary: ">> \o e.msg)>>)
             ELSE AskResult("raise", NoneSummary, e, request, <<>>)
        ELSE AskResult("ok", Summary(FALSE, reply.keys, reply.message), NoExc,
                       request, <<>>)

----------------------------------------------------------------------------
(* main: the exception handlers *)

Outcome(shown, esc) == [shown |-> shown, escaped |-> esc]

\* the outermost try of main
TopLevel(e) ==
    IF IsException(e)
    THEN Outcome(<<Error(<<"An unexpected error occurred. Please check the console for details.">>)>>, FALSE)
    ELSE Outcome(<<>>, TRUE)

\* the try around the "Generate Summary" pipeline, inside the outermost one
InRequest(e) ==
    IF IsException(e)
    THEN Outcome(<<Error(<<"An error occurred: ">> \o e.msg)>>, FALSE)
    ELSE TopLevel(e)

\* the try around the model selection, inside the outermost one
\* (the emoji that starts the first message is left out)
InModels(e) ==
    IF IsException(e)
    THEN Outcome(<< Error(<<"Error loading AI models">>),
                    Error(<<"Please make sure Ollama is running on http://localhost:11434/">>) >>,
                 FALSE)
    ELSE TopLevel(e)

----------------------------------------------------------------------------
(* main: the state of one script run *)

\* "https://youtu.be/UGMmYesxhHk"
default_url ==
    <<"h", "t", "t", "p", "s", ":", "/", "/">> \o ShortMarker \o
    <<"U", "G", "M", "m", "Y", "e", "s", "x", "h", "H", "k">>

\* what the URL text input can hold
FormUrls == UrlsUpTo(MaxPipeSegs) \cup {default_url}

\* what the "System Prompt" text area can hold: cleared, edited, or left at
\* the default for the selected tone
TextAreaValues(tone) ==
    { <<>>, <<"Summarize the video in one sentence.">>,
      create_default_prompt(tone_options[tone]) }

\* the button whose click started the run, "none" for any other rerun
Triggers == {"none", "reset", "generate"}

UnboundLocalMessages ==
    { <<"local variable 'transcript' referenced before assignment">>,
      <<"cannot access local variable 'transcript' where it is not associated with a value">> }

Init ==
    /\ pc = "models"
    /\ trigger = "none"
    /\ url = <<>>
    /\ selected_model = ""
    /\ selected_tone = ""
    /\ custom_prompt = <<>>
    /\ video_id = Unset
    /\ video_title = Unset
    /\ titleResponse = NoResponse
    /\ transcript = Unset
    /\ chatResponse = NoReply
    /\ summary = NoneSummary
    /\ display = <<>>
    /\ calls = <<>>
    /\ chatRequests = <<>>
    /\ escaped = FALSE
    /\ listResponse = NoListing
    /\ transcriptResponse = NoTranscript

\* an exception has unwound to its handler (or past every handler): the run ends
Abort(o) ==
    /\ display' = display \o o.shown
    /\ escaped' = o.escaped
    /\ pc' = "done"

\* what the model selection raises, NoExc when a model is selected
ModelsFailure(list) ==
    IF list.raises THEN list.exc
    ELSE IF "models" \notin list.keys THEN Exc("KeyError", <<"'models'">>)
    ELSE NoExc

\* the handler of a model-listing failure does not return
LoadModels_NoReturn ==
    /\ pc = "models"
    /\ \E out \in ListOutcomes :
         LET availableModels == getAvailableModels(out)
             e == ModelsFailure(availableModels)
         IN  /\ listResponse' = out
             /\ calls' = Append(calls, "list")
             /\ IF e # NoExc
                THEN /\ display' = display \o InModels(e).shown
                     /\ escaped' = InModels(e).escaped
                     /\ pc' = "sidebar"
                     /\ UNCHANGED selected_model
                ELSE /\ selected_model' = availableModels.names[1]
                     /\ pc' = "sidebar"
                     /\ UNCHANGED <<display, escaped>>
    /\ UNCHANGED <<transcriptResponse, trigger, url, selected_tone, custom_prompt, video_id,
                   video_title, titleResponse, transcript, chatResponse,
                   summary, chatRequests>>

\* the sidebar's model selection
LoadModels ==
    /\ pc = "models"
    /\ \E out \in ListOutcomes :
         LET availableModels == getAvailableModels(out)
             e == ModelsFailure(availableModels)
         IN  /\ listResponse' = out
             /\ calls' = Append(calls, "list")
             /\ IF e # NoExc
                THEN /\ Abort(InModels(e))
                     /\ UNCHANGED selected_model
                ELSE /\ selected_model' = availableModels.names[1]
                     /\ pc' = "sidebar"
                     /\ UNCHANGED <<display, escaped>>
    /\ UNCHANGED <<transcriptResponse, trigger, url, selected_tone, custom_prompt, video_id,
                   video_title, titleResponse, transcript, chatResponse,
                   summary, chatRequests>>

\* the sidebar's tone selection and prompt editor
Sidebar ==
    /\ pc = "sidebar"
    /\ \E tone \in DOMAIN tone_options :
       \E text \in TextAreaValues(tone) :
         LET default_prompt == create_default_prompt(tone_options[tone])
             prompt == IF trigger = "reset" THEN default_prompt ELSE text
         IN  /\ selected_tone' = tone
             /\ custom_prompt' = prompt
             /\ display' = Append(display,
                                  Download("Save Prompt", prompt,
                                           <<"custom_prompt.txt">>))
    /\ pc' = "main_area"
    /\ UNCHANGED <<listResponse, transcriptResponse, trigger, url, selected_model, video_id, video_title,
                   titleResponse, transcript, chatResponse, summary, calls,
                   chatRequests, escaped>>

\* the URL input and the "Generate Summary" button
MainArea ==
    /\ pc = "main_area"
    /\ \E u \in FormUrls :
         /\ url' = u
         /\ IF trigger = "generate"
            THEN IF Truthy(u)
                 THEN pc' = "parse" /\ UNCHANGED display
                 ELSE /\ display' = Append(display,
                                           Warning(<<"Please enter a YouTube URL">>))
                      /\ pc' = "done"
            ELSE pc' = "done" /\ UNCHANGED display
    /\ UNCHANGED <<listResponse, transcriptResponse, trigger, selected_model, selected_tone, custom_prompt,
                   video_id, video_title, titleResponse, transcript,
                   chatResponse, summary, calls, chatRequests, escaped>>

\* video_id = getVideoID(url) and the test of it
ParseURL ==
    /\ pc = "parse"
    /\ LET r == getVideoID(url) IN
         /\ video_id' = r
         /\ IF r.kind = "raise"
            THEN Abort(InRequest(r.exc))
            ELSE IF r.kind = "none" \/ ~Truthy(r.value)
            THEN /\ display' = Append(display,
                                      Error(<<"Could not extract video ID from URL">>))
                 /\ pc' = "done"
                 /\ UNCHANGED escaped
            ELSE pc' = "title" /\ UNCHANGED <<display, escaped>>
    /\ UNCHANGED <<listResponse, transcriptResponse, trigger, url, selected_model, selected_tone, custom_prompt,
                   video_title, titleResponse, transcript, chatResponse,
                   summary, calls, chatRequests>>

\* video_title = get_video_title(video_id)
ResolveTitle ==
    /\ pc = "title"
    /\ \E resp \in TitleResponses :
         LET r == get_video_title(video_id.value, resp) IN
         /\ calls' = Append(calls, "title")
         /\ titleResponse' = resp
         /\ IF r.kind = "raise"
            THEN /\ Abort(InRequest(r.exc))
                 /\ UNCHANGED video_title
            ELSE /\ video_title' = Returned(r.value)
                 /\ display' = display \o r.shown
                 /\ pc' = "transcript"
                 /\ UNCHANGED escaped
    /\ UNCHANGED <<listResponse, transcriptResponse, trigger, url, selected_model, selected_tone, custom_prompt,
                   video_id, transcript, chatResponse, summary, chatRequests>>

\* the transcript column, given what get_transcription did
TranscriptColumn(r) ==
    IF r.kind = "raise"
    THEN IF IsException(r.exc)
         THEN /\ display' = Append(display,
                                   Error(<<"Error getting transcript: ">> \o r.exc.msg))
              /\ pc' = "summary"
              /\ UNCHANGED <<transcript, escaped>>
         ELSE /\ Abort(InRequest(r.exc))
              /\ UNCHANGED transcript
    ELSE /\ transcript' = Returned(r.value)
         /\ IF Truthy(r.value)
            THEN display' = display \o
                    << TextArea("Video Transcript", r.value),
                       Download("Download Transcript", r.value,
                                video_title.value \o <<"_transcript.txt">>) >>
            ELSE display' = Append(display,
                                   Error(<<"No transcript available for this video">>))
         /\ pc' = "summary"
         /\ UNCHANGED escaped

\* a failed fetch is tried a second time
FetchTranscript_Retry ==
    /\ pc = "transcript"
    /\ \E out \in TranscriptOutcomes :
         IF out.raises
         THEN \E again \in TranscriptOutcomes :
                /\ calls' = calls \o <<"transcript", "transcript">>
                /\ transcriptResponse' = again
                /\ TranscriptColumn(get_transcription(video_id.value, again))
         ELSE /\ calls' = Append(calls, "transcript")
              /\ transcriptResponse' = out
              /\ TranscriptColumn(get_transcription(video_id.value, out))
    /\ UNCHANGED <<listResponse, trigger, url, selected_model, selected_tone, custom_prompt,
                   video_id, video_title, titleResponse, chatResponse, summary,
                   chatRequests>>

\* transcript = get_transcription(video_id) and the transcript column
FetchTranscript ==
    /\ pc = "transcript"
    /\ \E out \in TranscriptOutcomes :
         /\ calls' = Append(calls, "transcript")
         /\ transcriptResponse' = out
         /\ TranscriptColumn(get_transcription(video_id.value, out))
    /\ UNCHANGED <<listResponse, trigger, url, selected_model, selected_tone, custom_prompt,
                   video_id, video_title, titleResponse, chatResponse, summary,
                   chatRequests>>

\* the summary is asked for whenever transcript is bound
HasTranscript_Bound(t) == t.kind = "ok"

\* `if transcript:` in the summary column, transcript being bound
HasTranscript(t) == Truthy(t.value)

\* the summary column up to the test of transcript
SummaryStage ==
    /\ pc = "summary"
    /\ IF transcript.kind = "unset"
       THEN \E msg \in UnboundLocalMessages :
              Abort(InRequest(Exc("UnboundLocalError", msg)))
       ELSE /\ pc' = IF HasTranscript(transcript) THEN "chat" ELSE "done"
            /\ UNCHANGED <<display, escaped>>
    /\ UNCHANGED <<listResponse, transcriptResponse, trigger, url, selected_model, selected_tone, custom_prompt,
                   video_id, video_title, titleResponse, transcript,
                   chatResponse, summary, calls, chatRequests>>

\* summary = askOllama(...)
AskOllama ==
    /\ pc = "chat"
    /\ \E reply \in ChatReplies :
         LET r == askOllama(transcript.value, selected_model,
                            tone_options[selected_tone], custom_prompt, reply)
         IN  /\ calls' = Append(calls, "chat")
             /\ chatRequests' = Append(chatRequests, r.request)
             /\ chatResponse' = reply
             /\ IF r.kind = "raise"
                THEN /\ Abort(InRequest(r.exc))
                     /\ UNCHANGED summary
                ELSE /\ summary' = r.value
                     /\ display' = display \o r.shown
                     /\ pc' = "show"
                     /\ UNCHANGED escaped
    /\ UNCHANGED <<listResponse, transcriptResponse, trigger, url, selected_model, selected_tone, custom_prompt,
                   video_id, video_title, titleResponse, transcript>>

\* 'message' in summary is not tested before summary['message'] is read
SummaryCheck_NoMessageTest(s) ==
    IF s.isNone \/ s.keys = {} THEN "fail"
    ELSE IF "message" \notin s.keys THEN "KeyError"
    ELSE IF ~s.message.isDict THEN "TypeError"
    ELSE IF "content" \notin s.message.keys THEN "fail"
    ELSE "ok"

\* summary and 'message' in summary and 'content' in summary['message']
SummaryCheck(s) ==
    IF s.isNone \/ s.keys = {} THEN "fail"
    ELSE IF "message" \notin s.keys THEN "fail"
    ELSE IF ~s.message.isDict THEN "TypeError"
    ELSE IF "content" \notin s.message.keys THEN "fail"
    ELSE "ok"

\* the summary column after askOllama returned
ShowSummary ==
    /\ pc = "show"
    /\ LET c == SummaryCheck(summary) IN
         IF c = "ok"
         THEN /\ display' = display \o
                    << TextArea("Video Summary", summary.message.content),
                       Download("Download Summary", summary.message.content,
                                video_title.value \o <<"_summary.txt">>) >>
              /\ pc' = "done"
              /\ UNCHANGED escaped
         ELSE IF c = "fail"
         THEN /\ display' = Append(display, Error(<<"Failed to generate summary">>))
              /\ pc' = "done"
              /\ UNCHANGED escaped
         ELSE IF c = "TypeError"
         THEN Abort(InRequest(Exc("TypeError",
                        <<"argument of type 'NoneType' is not iterable">>)))
         ELSE Abort(InRequest(Exc("KeyError", <<"'message'">>)))
    /\ UNCHANGED <<listResponse, transcriptResponse, trigger, url, selected_model, selected_tone, custom_prompt,
                   video_id, video_title, titleResponse, transcript,
                   chatResponse, summary, calls, chatRequests>>

\* Streamlit runs the script again, from the top, on the next interaction
Rerun ==
    /\ pc = "done"
    /\ ~escaped
    /\ \E t \in Triggers : trigger' = t
    /\ pc' = "models"
    /\ url' = <<>>
    /\ selected_model' = ""
    /\ selected_tone' = ""
    /\ custom_prompt' = <<>>
    /\ video_id' = Unset
    /\ video_title' = Unset
    /\ titleResponse' = NoResponse
    /\ transcript' = Unset
    /\ chatResponse' = NoReply
    /\ summary' = NoneSummary
    /\ display' = <<>>
    /\ calls' = <<>>
    /\ chatRequests' = <<>>
    /\ listResponse' = NoListing
    /\ transcriptResponse' = NoTranscript
    /\ UNCHANGED escaped

\* one run of main(), step by step
main ==
    \/ LoadModels
    \/ Sidebar
    \/ MainArea
    \/ ParseURL
    \/ ResolveTitle
    \/ FetchTranscript
    \/ SummaryStage
    \/ AskOllama
    \/ ShowSummary

Next == main \/ Rerun

Spec == Init /\ [][Next]_vars

\* a run, once started, goes on to its end: the script is one sequential thread
FairSpec == Init /\ [][Next]_vars /\ WF_vars(main)

----------------------------------------------------------------------------
(* getVideoID on its own, over every URL of at most MaxSegs segments *)

InitParse ==
    /\ pc = "call"
    /\ trigger = "none"
    /\ url \in UrlsUpTo(MaxSegs)
    /\ selected_model = ""
    /\ selected_tone = ""
    /\ custom_prompt = <<>>
    /\ video_id = Unset
    /\ video_title = Unset
    /\ titleResponse = NoResponse
    /\ transcript = Unset
    /\ chatResponse = NoReply
    /\ summary = NoneSummary
    /\ display = <<>>
    /\ calls = <<>>
    /\ chatRequests = <<>>
    /\ escaped = FALSE
    /\ listResponse = NoListing
    /\ transcriptResponse = NoTranscript

CallGetVideoID ==
    /\ pc = "call"
    /\ video_id' = getVideoID(url)
    /\ pc' = "returned"
    /\ UNCHANGED <<trigger, url, selected_model, selected_tone, custom_prompt,
                   video_title, titleResponse, transcript, chatResponse,
                   summary, display, calls, chatRequests, escaped,
                   listResponse, transcriptResponse>>

NextParse == CallGetVideoID

SpecParse == InitParse /\ [][NextParse]_vars

----------------------------------------------------------------------------
(* Properties *)

InCalls(c) == \E i \in 1..Len(calls) : calls[i] = c
Count(c) == Cardinality({i \in 1..Len(calls) : calls[i] = c})

\* an error message that starts with the token t is on the page
ShowsErrorStarting(t) ==
    \E i \in ErrorsShown : display[i].text # <<>> /\ display[i].text[1] = t

\* C1: when the transcript provider raises in a request whose URL parsed to a
\* non-empty identifier, the page shows a transcript error and the model chat
\* endpoint is never called in that request.
C1_TranscriptFailureSkipsSummary ==
    (transcriptResponse.raises /\ video_id.kind = "ok" /\ Truthy(video_id.value))
    => /\ ShowsErrorStarting("Error getting transcript: ")
       /\ ~InCalls("chat")
       /\ chatRequests = <<>>
       /\ ~ShowsWidget("text_area", "Video Summary")

C1_Witness ==
    /\ pc = "done"
    /\ transcriptResponse.raises
    /\ Truthy(video_id.value)
    /\ InCalls("transcript")

\* C2: for a non-empty URL holding neither "youtu.be/" nor "v=", getVideoID
\* raises the invalid-format error and the request ends with that error on the
\* page, the title endpoint, the transcript provider and the model chat
\* endpoint not having been called.
C2_InvalidUrlHalts ==
    (video_id.kind # "unset" /\ Truthy(url)
       /\ ~Contains(url, ShortMarker) /\ ~Contains(url, VMarker))
    => /\ video_id = Raised(Exc("ValueError", <<"Invalid YouTube URL format">>))
       /\ pc = "done"
       /\ Shows(Error(<<"An error occurred: ", "Invalid YouTube URL format">>))
       /\ ~InCalls("title") /\ ~InCalls("transcript") /\ ~InCalls("chat")
       /\ ~escaped

C2_Witness ==
    /\ pc = "done"
    /\ trigger = "generate"
    /\ url = <<"a", "&">>
    /\ video_id.kind = "raise"

\* the reply of the model endpoint is {} or has no 'message' or its 'message'
\* object has no 'content'
ReplyIncomplete ==
    /\ InCalls("chat")
    /\ ~chatResponse.raises
    /\ \/ chatResponse.keys = {}
       \/ "message" \notin chatResponse.keys
       \/ chatResponse.message.isDict /\ "content" \notin chatResponse.message.keys

\* C3: when the model endpoint returns {} or a reply without a 'message'
\* object or without 'content' in it, the request ends with "Failed to generate
\* summary" and no summary, no exception escapes, and the transcript panel
\* rendered before stays on the page with the fetched transcript.
C3_IncompleteReplyReported ==
    ReplyIncomplete
    => /\ ~escaped
       /\ ~ShowsWidget("text_area", "Video Summary")
       /\ transcript.kind = "ok" /\ Truthy(transcript.value)
       /\ Shows(TextArea("Video Transcript", transcript.value))
       /\ pc \in {"show", "done"}
       /\ pc = "done" =>
            \E i, j \in 1..Len(display) :
               /\ i < j
               /\ display[i] = TextArea("Video Transcript", transcript.value)
               /\ display[j] = Error(<<"Failed to generate summary">>)

C3_Witness ==
    /\ pc = "done"
    /\ ReplyIncomplete
    /\ chatResponse.keys = {"model"}

\* C4: when the model listing fails, the run ends at once with the blocking
\* error: tone selector, prompt editor, URL input and "Generate Summary" are
\* not reached, and no URL is parsed and no title, transcript or chat call made.
C4_ListingFailureBlocks ==
    (InCalls("list") /\ listResponse.raises)
    => /\ pc = "done"
       /\ Shows(Error(<<"Error loading AI models">>))
       /\ selected_model = "" /\ selected_tone = ""
       /\ ~ShowsWidget("download_button", "Save Prompt")
       /\ url = <<>> /\ video_id = Unset
       /\ calls = <<"list">>
       /\ chatRequests = <<>>

C4_Witness ==
    /\ pc = "done"
    /\ trigger = "generate"
    /\ listResponse.raises
    /\ Len(display) = 2

\* what follows the leftmost occurrence of sep in s
AfterFirst(s, sep) ==
    LET i == CHOOSE k \in 1..Len(s) :
                StartsAt(s, sep, k) /\ \A j \in 1..(k - 1) : ~StartsAt(s, sep, j)
    IN  SubSeq(s, i + Len(sep), Len(s))

\* s up to, not including, the leftmost occurrence of any of seps
UpToAny(s, seps) ==
    LET hits == {k \in 1..Len(s) : \E sep \in seps : StartsAt(s, sep, k)}
        stop == IF hits = {} THEN Len(s) + 1
                ELSE CHOOSE k \in hits : \A h \in hits : k <= h
    IN  SubSeq(s, 1, stop - 1)

\* C5, as stated: for every URL containing "v=", getVideoID returns the
\* substring between "v=" and the next "&" (or the end of the string).
C5_VParamAlways ==
    (pc = "returned" /\ Contains(url, VMarker))
    => video_id = Returned(UpToAny(AfterFirst(url, VMarker), {Amp}))

\* C5, amended: for every URL that contains "v=" and does not contain
\* "youtu.be/", getVideoID returns the substring between the first "v=" and
\* the next "&" or "v=" (or the end of the string); a URL that contains
\* "youtu.be/" is read as a short link even when it also contains "v=": the
\* result is what follows the first "youtu.be/", up to the next "?" or
\* "youtu.be/".
C5_VParamWithoutShortLink ==
    /\ (pc = "returned" /\ Contains(url, VMarker) /\ ~Contains(url, ShortMarker))
       => video_id = Returned(UpToAny(AfterFirst(url, VMarker), {Amp, VMarker}))
    /\ (pc = "returned" /\ Contains(url, VMarker) /\ Contains(url, ShortMarker))
       => video_id = Returned(UpToAny(AfterFirst(url, ShortMarker),
                                      {QMark, ShortMarker}))

C5_Witness ==
    /\ pc = "returned"
    /\ url = VMarker \o <<"a">> \o Amp \o <<"b">>
    /\ video_id = Returned(<<"a">>)

\* the title endpoint answered 200 with a JSON body that has a title
TitleFound ==
    /\ ~titleResponse.raises
    /\ titleResponse.status_code = 200
    /\ titleResponse.json.valid
    /\ "title" \in titleResponse.json.keys

\* C6: get_video_title never fails outward: it returns the title of a 200
\* response whose JSON body has one, and the video identifier on any failure,
\* and the request goes on to the transcript stage.
C6_TitleNeverFails ==
    InCalls("title")
    => /\ video_title.kind = "ok"
       /\ video_title.value = IF TitleFound THEN titleResponse.json.title
                              ELSE video_id.value
       /\ ~escaped
       /\ pc = "transcript" \/ InCalls("transcript")

C6_Witness ==
    /\ pc = "done"
    /\ InCalls("title")
    /\ titleResponse.status_code = 404
    /\ titleResponse.json.valid
    /\ video_title.value = video_id.value

\* C7, as stated: when the transcript fetch succeeds with the empty string,
\* the chat request is still sent to the model endpoint.
C7_EmptyTranscriptStillCalls ==
    (pc = "done" /\ transcript = Returned(<<>>) /\ selected_model # "")
    => InCalls("chat")

\* C7, amended: when the transcript fetch succeeds with the empty string, main
\* shows "No transcript available for this video" and skips the summarizer:
\* the model endpoint is not called in that request.
C7_EmptyTranscriptSkipsSummary ==
    (InCalls("transcript") /\ transcript = Returned(<<>>))
    => /\ Shows(Error(<<"No transcript available for this video">>))
       /\ ~InCalls("chat")
       /\ chatRequests = <<>>
       /\ pc \in {"summary", "done"}

C7_Witness ==
    /\ pc = "done"
    /\ InCalls("transcript")
    /\ ~transcriptResponse.raises
    /\ transcript = Returned(<<>>)
    /\ selected_model = "llama3"

\* the system message of the chat request sent
SentSystemPrompt == chatRequests[1].messages[1].content

SummaryShown == ShowsWidget("text_area", "Video Summary")

\* C9: every run of main ends and no exception escapes it, and a "Generate
\* Summary" request with a non-empty URL ends with exactly one of: a summary
\* on the page, or at least one error message on the page.
C9_RunEndsWithResultOrError ==
    /\ [](~escaped)
    /\ []((pc = "done" /\ trigger = "generate" /\ Truthy(url))
            => (SummaryShown <=> ErrorsShown = {}))
    /\ [](pc # "done" => <>(pc = "done"))

C9_Witness ==
    /\ pc = "done"
    /\ trigger = "generate"
    /\ SummaryShown
    /\ ErrorsShown = {}

\* C10: within one request the title endpoint, the transcript provider and
\* the model chat endpoint are each called at most once, whatever the call's
\* outcome, and the chat call comes after the title lookup and the transcript
\* fetch have both completed.
C10_NoRetryAndOrder ==
    /\ Count("title") <= 1
    /\ Count("transcript") <= 1
    /\ Count("chat") <= 1
    /\ Len(chatRequests) = Count("chat")
    /\ \A i \in 1..Len(calls) :
         calls[i] = "chat" =>
            /\ \E j \in 1..(i - 1) : calls[j] = "title"
            /\ \E k \in 1..(i - 1) : calls[k] = "transcript"
            /\ video_title.kind = "ok" /\ transcript.kind = "ok"

C10_Witness ==
    /\ pc = "done"
    /\ calls = <<"list", "title", "transcript", "chat">>
    /\ chatResponse.raises
    /\ titleResponse.raises

====
